---- MODULE Spec2Model ----
(***************************************************************************)
(* Model of the keyboard layout changer (src/main.py).                     *)
(*                                                                         *)
(* Text is a sequence of Unicode code points, so the translation tables    *)
(* are the ordinal-to-ordinal maps that str.maketrans builds.              *)
(*                                                                         *)
(* Four specifications are defined over one set of variables:              *)
(*   Spec     one on_hotkey correction cycle, with its clipboard calls and *)
(*            the focused application handling the synthesized shortcuts;  *)
(*   SpecArb  one call of get_clipboard_text / set_clipboard_text with     *)
(*            an arbitrary number of retries;                              *)
(*   SpecReg  register_hotkey run by the listener thread and by rebind     *)
(*            worker threads, interleaved statement by statement;          *)
(*   SpecPure detect_direction, fix_layout and the two translation tables  *)
(*            applied to one input text.                                   *)
(***************************************************************************)
EXTENDS Integers, Sequences, FiniteSets, TLC

VARIABLES
    \* ---- system clipboard and focused application
    clipboard,      \* text held by the system clipboard (<<>>: no text)
    clipOpen,       \* TRUE while this process holds the clipboard open
    selection,      \* text selected in the focused application
    appPending,     \* synthesized shortcuts the application has not handled yet
    pasted,         \* TRUE once the application has handled a paste shortcut
    pasteClip,      \* the text the application pasted
    \* ---- one call of get_clipboard_text / set_clipboard_text
    fn,             \* "none", "get" or "set"
    text,           \* argument of set_clipboard_text
    retries,        \* argument retries
    i,              \* loop variable of `for i in range(retries)`
    ph,             \* position inside the call
    exc,            \* error code of the exception in flight (0: none)
    data,           \* local `data` of get_clipboard_text
    retVal,         \* value returned by the call
    how,            \* "none", "ok" (return at 138/166) or "exhausted" (loop ran out)
    opens,          \* number of OpenClipboard calls made by the call
    sleeps,         \* number of time.sleep(delay) calls made by the call
    closes,         \* number of CloseClipboard calls made by the call
    fails,          \* error codes of the failed attempts of the call, in order
    \* ---- one invocation of on_hotkey
    pc,             \* position inside on_hotkey
    op,             \* the on_hotkey step that issued the latest clipboard call
    old, selected, fixed,   \* locals of on_hotkey
    clip0,          \* clipboard text when the invocation started
    cleared,        \* TRUE once the clear step set_clipboard_text("") has run
    failed,         \* TRUE once any clipboard attempt of the invocation failed
    \* ---- hotkey binding
    current_hotkey_str,
    current_hotkey_id,
    registry,       \* active registrations of the keyboard subsystem: handle -> spec
    nextHandle,     \* next handle the keyboard subsystem hands out
    config,         \* content of CONFIG_FILE
    rpc,            \* per thread: position in start_hotkeys / worker / register_hotkey
    rhotkey,        \* per thread: local `hotkey`
    rinitial,       \* per thread: argument `initial` of ask_hotkey_blocking
    rhandle,        \* per thread: value returned by keyboard.add_hotkey
    ncalls,         \* number of register_hotkey calls begun
    lastCall,       \* argument of the register_hotkey call begun last
    overlapped,     \* TRUE once a register_hotkey call began while another was running
    aborted,        \* TRUE once a register_hotkey call ended by an exception
    keyErrorPassed, \* TRUE once a remove_hotkey raised KeyError, passed over
    pre,            \* the binding as a call alone in register_hotkey found it
    \* ---- the text functions applied to one input
    arg,            \* the input text
    tableName,      \* the table the input is translated by: "ru_to_en" or "en_to_ru"
    detected,       \* detect_direction(arg)
    result,         \* fix_layout(arg)
    once,           \* arg translated by the table
    twice,          \* once translated by the other table
    ppc             \* which of the functions have been applied

clipVars == <<clipboard, clipOpen, selection, appPending, pasted, pasteClip>>
arbVars  == <<fn, text, retries, i, ph, exc, data, retVal, how, opens, sleeps, closes,
              fails>>
cycVars  == <<pc, op, old, selected, fixed, clip0, cleared, failed>>
regVars  == <<current_hotkey_str, current_hotkey_id, registry, nextHandle, config,
              rpc, rhotkey, rinitial, rhandle, ncalls, lastCall, overlapped, aborted,
              keyErrorPassed, pre>>
pureVars == <<arg, tableName, detected, result, once, twice, ppc>>
vars     == <<clipVars, arbVars, cycVars, regVars, pureVars>>

(***************************************************************************)
(* Bounds of the model.                                                    *)
(***************************************************************************)
MaxLen == 2
MaxRetries == 3
MaxWorkers == 1
MaxCalls == 3
MaxTextLen == 3

(***************************************************************************)
(* Constants and tables (main.py 28-39).                                   *)
(***************************************************************************)
DEFAULT_HOTKEY == "ctrl+shift+q"

RU_CHARS ==
    {1081, 1094, 1091, 1082, 1077, 1085, 1075, 1096, 1097, 1079, 1093, 1098,
     1092, 1099, 1074, 1072, 1087, 1088, 1086, 1083, 1076, 1078, 1101, 1103,
     1095, 1089, 1084, 1080, 1090, 1100, 1073, 1102,
     1049, 1062, 1059, 1050, 1045, 1053, 1043, 1064, 1065, 1047, 1061, 1066,
     1060, 1067, 1042, 1040, 1055, 1056, 1054, 1051, 1044, 1046, 1069, 1071,
     1063, 1057, 1052, 1048, 1058, 1068, 1041, 1070}

EN_CHARS ==
    {113, 119, 101, 114, 116, 121, 117, 105, 111, 112, 97, 115, 100, 102, 103,
     104, 106, 107, 108, 122, 120, 99, 118, 98, 110, 109,
     81, 87, 69, 82, 84, 89, 85, 73, 79, 80, 65, 83, 68, 70, 71, 72, 74, 75, 76,
     90, 88, 67, 86, 66, 78, 77}

RU ==
    <<1081, 1094, 1091, 1082, 1077, 1085, 1075, 1096, 1097, 1079, 1093, 1098,
      1092, 1099, 1074, 1072, 1087, 1088, 1086, 1083, 1076, 1078, 1101, 1103,
      1095, 1089, 1084, 1080, 1090, 1100, 1073, 1102, 1105,
      44, 46, 34, 8470, 59, 58, 63>>

EN ==
    <<113, 119, 101, 114, 116, 121, 117, 105, 111, 112, 91, 93, 97, 115, 100,
      102, 103, 104, 106, 107, 108, 59, 39, 122, 120, 99, 118, 98, 110, 109,
      44, 46, 96, 63, 47, 64, 35, 36, 94, 38>>

EN_UPPER ==
    <<81, 87, 69, 82, 84, 89, 85, 73, 79, 80, 123, 125, 65, 83, 68, 70, 71, 72,
      74, 75, 76, 58, 34, 90, 88, 67, 86, 66, 78, 77, 60, 62, 126,
      63, 47, 64, 35, 36, 94, 38>>

\* str.upper() on one character of RU: the 32 letters U+0430..U+044F move down
\* by 32, U+0451 goes to U+0401, punctuation and U+2116 stay.
UpperChar(c) ==
    IF c >= 1072 /\ c <= 1103 THEN c - 32
    ELSE IF c = 1105 THEN 1025
    ELSE c

Upper(s) == [k \in 1..Len(s) |-> UpperChar(s[k])]

\* str.maketrans(x, y): a dict built from the pairs in order, so that of two
\* pairs with the same key the later one stays.
MakeTrans(x, y) ==
    [c \in {x[k] : k \in 1..Len(x)} |->
        y[CHOOSE k \in 1..Len(x) : x[k] = c /\ \A j \in 1..Len(x) : x[j] = c => j <= k]]

ru_to_en_NoUpper == MakeTrans(RU \o Upper(RU), EN \o EN)
ru_to_en_UpperToSelf == MakeTrans(RU \o Upper(RU), EN \o Upper(RU))
ru_to_en == MakeTrans(RU \o Upper(RU), EN \o EN_UPPER)
en_to_ru == MakeTrans(EN \o EN_UPPER, RU \o Upper(RU))

Translate_DropUnmapped(s, table) ==
    LET Mapped(c) == c \in DOMAIN table
        kept == SelectSeq(s, Mapped)
    IN  [k \in 1..Len(kept) |-> table[kept[k]]]

\* str.translate(table): characters outside the table stay.
Translate(s, table) ==
    [k \in 1..Len(s) |-> IF s[k] \in DOMAIN table THEN table[s[k]] ELSE s[k]]

CountIn(s, set) == Cardinality({k \in 1..Len(s) : s[k] \in set})

detect_direction_TieRu(s) ==
    LET ru_count == CountIn(s, RU_CHARS)
        en_count == CountIn(s, EN_CHARS)
    IN  IF en_count >= ru_count THEN "ru"
        ELSE IF ru_count > en_count THEN "en"
        ELSE "none"

detect_direction_Swapped(s) ==
    LET ru_count == CountIn(s, RU_CHARS)
        en_count == CountIn(s, EN_CHARS)
    IN  IF en_count > ru_count THEN "en"
        ELSE IF ru_count > en_count THEN "ru"
        ELSE "none"

detect_direction(s) ==
    LET ru_count == CountIn(s, RU_CHARS)
        en_count == CountIn(s, EN_CHARS)
    IN  IF en_count > ru_count THEN "ru"
        ELSE IF ru_count > en_count THEN "en"
        ELSE "none"

fix_layout(s) ==
    LET direction == detect_direction(s)
    IN  IF direction = "ru" THEN Translate(s, en_to_ru)
        ELSE IF direction = "en" THEN Translate(s, ru_to_en)
        ELSE s

(***************************************************************************)
(* Inputs.                                                                 *)
(***************************************************************************)
\* g, G, Cyrillic pe, digit 1, comma
SampleChars == {103, 71, 1087, 49, 44}

SeqsUpTo(set, n) == UNION {[1..m -> set] : m \in 0..n}

Selections == SeqsUpTo(SampleChars, MaxLen)

\* "", "u", Cyrillic pe followed by 1
ClipTexts == {<< >>, <<117>>, <<1087, 49>>}

\* pywintypes.error codes: 5 is "access denied" (the clipboard is owned by
\* another process); 6 stands for every other code.
ACCESS_DENIED == 5
ErrorCodes == {ACCESS_DENIED, ACCESS_DENIED + 1}

DefaultRetries == 5

(***************************************************************************)
(* get_clipboard_text / set_clipboard_text (main.py 113-172).              *)
(***************************************************************************)
\* The call itself: parameters bound, loop about to start.
CallArb(f, t, n) ==
    /\ fn' = f
    /\ text' = t
    /\ retries' = n
    /\ i' = 0
    /\ ph' = "loop"
    /\ exc' = 0
    /\ data' = << >>
    /\ retVal' = << >>
    /\ how' = "none"
    /\ opens' = 0
    /\ sleeps' = 0
    /\ closes' = 0
    /\ fails' = << >>

\* Variant of the loop that makes one attempt too many (range(retries + 1)).
ArbLoop_OneMore ==
    /\ ph = "loop"
    /\ IF i <= retries
       THEN /\ ph' = "open"
            /\ UNCHANGED <<retVal, how>>
       ELSE /\ ph' = "returned"
            /\ retVal' = << >>
            /\ how' = "exhausted"
    /\ UNCHANGED <<fn, text, retries, i, exc, data, opens, sleeps, closes, fails>>
    /\ UNCHANGED <<clipVars, cycVars, regVars, pureVars>>

\* for i in range(retries): next iteration, or the loop runs out.
\* get_clipboard_text then returns "" (147); set_clipboard_text falls off
\* its end and returns None.
ArbLoop ==
    /\ ph = "loop"
    /\ IF i < retries
       THEN /\ ph' = "open"
            /\ UNCHANGED <<retVal, how>>
       ELSE /\ ph' = "returned"
            /\ retVal' = << >>
            /\ how' = "exhausted"
    /\ UNCHANGED <<fn, text, retries, i, exc, data, opens, sleeps, closes, fails>>
    /\ UNCHANGED <<clipVars, cycVars, regVars, pureVars>>

\* cb.OpenClipboard(): succeeds, or raises pywintypes.error with some code.
ArbOpen ==
    /\ ph = "open"
    /\ opens' = opens + 1
    /\ \E c \in {0} \cup ErrorCodes :
          IF c = 0
          THEN /\ clipOpen' = TRUE
               /\ ph' = "body"
               /\ UNCHANGED <<exc, fails, failed>>
          ELSE /\ exc' = c
               /\ fails' = Append(fails, c)
               /\ failed' = TRUE
               /\ ph' = "except"
               /\ UNCHANGED clipOpen
    /\ UNCHANGED <<fn, text, retries, i, data, retVal, how, sleeps, closes>>
    /\ UNCHANGED <<clipboard, selection, appPending, pasted, pasteClip>>
    /\ UNCHANGED <<pc, op, old, selected, fixed, clip0, cleared>>
    /\ UNCHANGED <<regVars, pureVars>>

\* The inner try block. get: the text of the clipboard, "" when it holds no
\* text. set: EmptyClipboard then SetClipboardText; either may raise.
ArbBody ==
    /\ ph = "body"
    /\ \/ /\ fn = "get"
          /\ \E c \in {0} \cup ErrorCodes :
                IF c = 0
                THEN /\ data' = clipboard
                     /\ UNCHANGED <<exc, fails, failed>>
                ELSE /\ exc' = c
                     /\ fails' = Append(fails, c)
                     /\ failed' = TRUE
                     /\ UNCHANGED data
          /\ UNCHANGED clipboard
       \/ /\ fn = "set"
          /\ \E c \in {0} \cup ErrorCodes, emptied \in BOOLEAN :
                IF c = 0
                THEN /\ emptied
                     /\ clipboard' = text
                     /\ UNCHANGED <<exc, fails, failed>>
                ELSE /\ clipboard' = IF emptied THEN << >> ELSE clipboard
                     /\ exc' = c
                     /\ fails' = Append(fails, c)
                     /\ failed' = TRUE
          /\ UNCHANGED data
    /\ ph' = "close"
    /\ UNCHANGED <<fn, text, retries, i, retVal, how, opens, sleeps, closes>>
    /\ UNCHANGED <<clipOpen, selection, appPending, pasted, pasteClip>>
    /\ UNCHANGED <<pc, op, old, selected, fixed, clip0, cleared>>
    /\ UNCHANGED <<regVars, pureVars>>

\* Variant without the finally clause: the clipboard is closed only when
\* the body did not raise.
ArbClose_NoFinally ==
    /\ ph = "close"
    /\ IF exc = 0
       THEN /\ clipOpen' = FALSE
            /\ closes' = closes + 1
            /\ ph' = "returned"
            /\ retVal' = IF fn = "get" THEN data ELSE << >>
            /\ how' = "ok"
       ELSE /\ ph' = "except"
            /\ UNCHANGED <<clipOpen, closes, retVal, how>>
    /\ UNCHANGED <<fn, text, retries, i, exc, data, opens, sleeps, fails>>
    /\ UNCHANGED <<clipboard, selection, appPending, pasted, pasteClip>>
    /\ UNCHANGED <<cycVars, regVars, pureVars>>

\* finally: cb.CloseClipboard(); then `return data` / `return`, or the
\* exception of the body goes on to the except clause.
ArbClose ==
    /\ ph = "close"
    /\ clipOpen' = FALSE
    /\ closes' = closes + 1
    /\ IF exc = 0
       THEN /\ ph' = "returned"
            /\ retVal' = IF fn = "get" THEN data ELSE << >>
            /\ how' = "ok"
       ELSE /\ ph' = "except"
            /\ UNCHANGED <<retVal, how>>
    /\ UNCHANGED <<fn, text, retries, i, exc, data, opens, sleeps, fails>>
    /\ UNCHANGED <<clipboard, selection, appPending, pasted, pasteClip>>
    /\ UNCHANGED <<cycVars, regVars, pureVars>>

\* Variant of the except clause that leaves the loop on an owner conflict
\* (break in place of continue).
ArbExcept_Break ==
    /\ ph = "except"
    /\ IF exc = ACCESS_DENIED
       THEN /\ sleeps' = sleeps + 1
            /\ ph' = "returned"
            /\ retVal' = << >>
            /\ how' = "exhausted"
            /\ UNCHANGED <<i, exc>>
       ELSE /\ ph' = "raised"
            /\ UNCHANGED <<sleeps, i, exc, retVal, how>>
    /\ UNCHANGED <<fn, text, retries, data, opens, closes, fails>>
    /\ UNCHANGED <<clipVars, cycVars, regVars, pureVars>>

\* Variant of the except clause without the test of the error code: every
\* failure sleeps and continues.
ArbExcept_RetryAll ==
    /\ ph = "except"
    /\ sleeps' = sleeps + 1
    /\ i' = i + 1
    /\ exc' = 0
    /\ ph' = "loop"
    /\ UNCHANGED <<fn, text, retries, data, retVal, how, opens, closes, fails>>
    /\ UNCHANGED <<clipVars, cycVars, regVars, pureVars>>

\* except pywintypes.error as e: code 5 sleeps and continues, any other
\* code is raised again.
ArbExcept ==
    /\ ph = "except"
    /\ IF exc = ACCESS_DENIED
       THEN /\ sleeps' = sleeps + 1
            /\ i' = i + 1
            /\ exc' = 0
            /\ ph' = "loop"
       ELSE /\ ph' = "raised"
            /\ UNCHANGED <<sleeps, i, exc>>
    /\ UNCHANGED <<fn, text, retries, data, retVal, how, opens, closes, fails>>
    /\ UNCHANGED <<clipVars, cycVars, regVars, pureVars>>

ArbNext == ArbLoop \/ ArbOpen \/ ArbBody \/ ArbClose \/ ArbExcept

(***************************************************************************)
(* on_hotkey (main.py 222-269).                                            *)
(***************************************************************************)
\* The registered callback runs: old = get_clipboard_text() is called (232).
HotkeyFired ==
    /\ pc = "idle"
    /\ pc' = "snapshot"
    /\ op' = "snapshot"
    /\ clip0' = clipboard
    /\ CallArb("get", << >>, DefaultRetries)
    /\ UNCHANGED <<old, selected, fixed, cleared, failed>>
    /\ UNCHANGED <<clipVars, regVars, pureVars>>

\* 232 returns into old; set_clipboard_text("") is called (233).
AfterSnapshot ==
    /\ pc = "snapshot" /\ ph = "returned"
    /\ old' = retVal
    /\ pc' = "clear"
    /\ op' = "clear"
    /\ CallArb("set", << >>, DefaultRetries)
    /\ UNCHANGED <<selected, fixed, clip0, cleared, failed>>
    /\ UNCHANGED <<clipVars, regVars, pureVars>>

\* 233 returned.
AfterClear ==
    /\ pc = "clear" /\ ph = "returned"
    /\ cleared' = TRUE
    /\ pc' = "release"
    /\ UNCHANGED <<op, old, selected, fixed, clip0, failed>>
    /\ UNCHANGED <<clipVars, arbVars, regVars, pureVars>>

\* 235-244: every key of the hotkey is released; kb.release raises for a
\* token the key simulation layer does not accept.
ReleaseKeys ==
    /\ pc = "release"
    /\ \E ok \in BOOLEAN : pc' = IF ok THEN "copy" ELSE "raised"
    /\ UNCHANGED <<op, old, selected, fixed, clip0, cleared, failed>>
    /\ UNCHANGED <<clipVars, arbVars, regVars, pureVars>>

\* 246-249: Ctrl+C is synthesized; the key events go to the focused
\* application, which handles them when it gets to them.
SynthCopy ==
    /\ pc = "copy"
    /\ appPending' = Append(appPending, "copy")
    /\ pc' = "settle_copy"
    /\ UNCHANGED <<op, old, selected, fixed, clip0, cleared, failed>>
    /\ UNCHANGED <<clipboard, clipOpen, selection, pasted, pasteClip>>
    /\ UNCHANGED <<arbVars, regVars, pureVars>>

\* 251-252: the settle delay is over; selected = get_clipboard_text() is
\* called, whether the application has handled the copy or not.
SettleCopy ==
    /\ pc = "settle_copy"
    /\ pc' = "read_sel"
    /\ op' = "read_sel"
    /\ CallArb("get", << >>, DefaultRetries)
    /\ UNCHANGED <<old, selected, fixed, clip0, cleared, failed>>
    /\ UNCHANGED <<clipVars, regVars, pureVars>>

\* 252 returns into selected. Empty: set_clipboard_text(old) is called (255).
\* Otherwise fixed = fix_layout(selected) and set_clipboard_text(fixed) is
\* called (259-261).
AfterReadSel ==
    /\ pc = "read_sel" /\ ph = "returned"
    /\ selected' = retVal
    /\ IF retVal = << >>
       THEN /\ pc' = "restore"
            /\ op' = "restore"
            /\ CallArb("set", old, DefaultRetries)
            /\ UNCHANGED fixed
       ELSE /\ fixed' = fix_layout(retVal)
            /\ pc' = "write_fixed"
            /\ op' = "write_fixed"
            /\ CallArb("set", fix_layout(retVal), DefaultRetries)
    /\ UNCHANGED <<old, clip0, cleared, failed>>
    /\ UNCHANGED <<clipVars, regVars, pureVars>>

\* 261 returned.
AfterWriteFixed ==
    /\ pc = "write_fixed" /\ ph = "returned"
    /\ pc' = "paste"
    /\ UNCHANGED <<op, old, selected, fixed, clip0, cleared, failed>>
    /\ UNCHANGED <<clipVars, arbVars, regVars, pureVars>>

\* 263-266: Ctrl+V is synthesized; the key events go to the focused
\* application.
SynthPaste ==
    /\ pc = "paste"
    /\ appPending' = Append(appPending, "paste")
    /\ pc' = "settle_paste"
    /\ UNCHANGED <<op, old, selected, fixed, clip0, cleared, failed>>
    /\ UNCHANGED <<clipboard, clipOpen, selection, pasted, pasteClip>>
    /\ UNCHANGED <<arbVars, regVars, pureVars>>

\* Variant of the step after the paste that returns without the final
\* set_clipboard_text(old).
SettlePaste_SkipRestore ==
    /\ pc = "settle_paste"
    /\ pc' = "done"
    /\ UNCHANGED <<op, old, selected, fixed, clip0, cleared, failed>>
    /\ UNCHANGED <<clipVars, arbVars, regVars, pureVars>>

\* 268-269: the settle delay is over; set_clipboard_text(old) is called,
\* whether the application has pasted or not.
SettlePaste ==
    /\ pc = "settle_paste"
    /\ pc' = "restore"
    /\ op' = "restore"
    /\ CallArb("set", old, DefaultRetries)
    /\ UNCHANGED <<old, selected, fixed, clip0, cleared, failed>>
    /\ UNCHANGED <<clipVars, regVars, pureVars>>

\* 255 / 269 returned: on_hotkey returns.
AfterRestore ==
    /\ pc = "restore" /\ ph = "returned"
    /\ pc' = "done"
    /\ UNCHANGED <<op, old, selected, fixed, clip0, cleared, failed>>
    /\ UNCHANGED <<clipVars, arbVars, regVars, pureVars>>

\* on_hotkey has no try block: an exception of a clipboard call leaves it.
Propagate ==
    /\ pc \in {"snapshot", "clear", "read_sel", "write_fixed", "restore"}
    /\ ph = "raised"
    /\ pc' = "raised"
    /\ UNCHANGED <<op, old, selected, fixed, clip0, cleared, failed>>
    /\ UNCHANGED <<clipVars, arbVars, regVars, pureVars>>

CycleNext ==
    \/ HotkeyFired \/ AfterSnapshot \/ AfterClear \/ ReleaseKeys
    \/ SynthCopy \/ SettleCopy \/ AfterReadSel \/ AfterWriteFixed
    \/ SynthPaste \/ SettlePaste \/ AfterRestore \/ Propagate

(***************************************************************************)
(* The focused application: another process, which handles the synthesized *)
(* shortcuts in the order they were sent, each at a moment of its own,     *)
(* during on_hotkey or after it has ended.  It gets at the clipboard only  *)
(* while this process does not hold it open.                               *)
(***************************************************************************)
\* The application handles Ctrl+C: its selection, if it has one, goes to the
\* clipboard.
AppCopy ==
    /\ appPending # << >> /\ Head(appPending) = "copy"
    /\ ~clipOpen
    /\ appPending' = Tail(appPending)
    /\ clipboard' = IF selection # << >> THEN selection ELSE clipboard
    /\ UNCHANGED <<clipOpen, selection, pasted, pasteClip>>
    /\ UNCHANGED <<arbVars, cycVars, regVars, pureVars>>

\* The application handles Ctrl+V: it pastes what the clipboard holds then.
AppPaste ==
    /\ appPending # << >> /\ Head(appPending) = "paste"
    /\ ~clipOpen
    /\ appPending' = Tail(appPending)
    /\ pasted' = TRUE
    /\ pasteClip' = clipboard
    /\ UNCHANGED <<clipboard, clipOpen, selection>>
    /\ UNCHANGED <<arbVars, cycVars, regVars, pureVars>>

AppNext == AppCopy \/ AppPaste

(***************************************************************************)
(* Hotkey binding (main.py 59-60, 80-109, 271-336).                        *)
(***************************************************************************)
\* Python's None, for current_hotkey_str and for a cancelled prompt.
None == "None"

\* current_hotkey_id is None.
NoId == 0

\* Thread 0 is the listener thread (start_hotkeys); the others are rebind
\* worker threads (_ask_and_set_hotkey_worker): at most MaxWorkers of them are
\* alive at a time, and a new one takes the place of one that has ended.
Threads == 0..MaxWorkers
Workers == 1..MaxWorkers

\* What the user leaves in the prompt: a cancel, blanks only, a combination,
\* a combination with blanks around it, a combination the keyboard
\* subsystem cannot parse.
Answers == {None, "  ", "ctrl+alt+k", " ctrl+shift+q ", "ctrl+nokey"}

\* str.strip() on the answers.
Strip(s) ==
    CASE s = "  " -> ""
      [] s = " ctrl+shift+q " -> "ctrl+shift+q"
      [] OTHER -> s

\* keyboard.add_hotkey raises ValueError for a key name it does not know.
Parseable(h) == h \in {"ctrl+shift+q", "ctrl+alt+k"}

\* Length of the text json.dump writes for {"hotkey": h} with indent=2 (108):
\* an opening of 15 characters, h, and a closing of 3.
JsonSize(h) == 15 + Len(h) + 3

\* CONFIG_FILE: absent, not JSON, a JSON object without "hotkey", or a JSON
\* object with it; size is the length of its content.
Configs ==
    {[kind |-> "absent", hotkey |-> None, size |-> 0],
     [kind |-> "corrupt", hotkey |-> None, size |-> 1],
     [kind |-> "json", hotkey |-> None, size |-> 2],
     [kind |-> "json", hotkey |-> "ctrl+alt+k", size |-> JsonSize("ctrl+alt+k")]}

\* 89-96: no file, a file json.load cannot parse (an empty one included), or
\* a JSON object without the key give DEFAULT_HOTKEY.
load_hotkey ==
    IF config.kind = "absent" THEN DEFAULT_HOTKEY
    ELSE IF config.kind # "json" THEN DEFAULT_HOTKEY
    ELSE IF config.hotkey = None THEN DEFAULT_HOTKEY
    ELSE config.hotkey

\* 107: open(CONFIG_FILE, "w") creates the file or cuts it to length 0.
Truncated == [kind |-> "empty", hotkey |-> None, size |-> 0]

\* The file that save_hotkey(h) leaves when nothing else writes meanwhile.
save_hotkey(h) == [kind |-> "json", hotkey |-> h, size |-> JsonSize(h)]

\* 108-109: the with-block closes the file and the buffered text goes out at
\* offset 0 of whatever the file holds by then: a longer content written by
\* another thread since the open keeps its tail, and the file is not JSON.
WriteAtStart(file, h) ==
    IF file.size <= JsonSize(h)
    THEN save_hotkey(h)
    ELSE [kind |-> "corrupt", hotkey |-> None, size |-> file.size]

\* Thread u is inside register_hotkey.
InRegister(u) ==
    rpc[u] \in {"check", "remove", "set_str", "add", "set_id", "save", "save_close"}

\* The handle is one the keyboard subsystem has a registration for.
Registered(h) == \E r \in registry : r.id = h

\* No call is alone in register_hotkey, so no binding is remembered.
NoPre ==
    [known |-> FALSE, str |-> None, id |-> NoId, registry |-> {},
     config |-> [kind |-> "absent", hotkey |-> None, size |-> 0]]

\* register_hotkey(h) is entered by thread t.
EnterRegister(t, h) ==
    /\ rpc' = [rpc EXCEPT ![t] = "check"]
    /\ rhotkey' = [rhotkey EXCEPT ![t] = h]
    /\ ncalls' = ncalls + 1
    /\ lastCall' = h
    /\ overlapped' = (overlapped \/ \E u \in Threads \ {t} : InRegister(u))
    /\ pre' = IF \E u \in Threads \ {t} : InRegister(u)
              THEN NoPre
              ELSE [known |-> TRUE, str |-> current_hotkey_str,
                    id |-> current_hotkey_id, registry |-> registry,
                    config |-> config]

\* start_hotkeys 334: hotkey = load_hotkey().
StartLoad ==
    /\ rpc[0] = "start"
    /\ rhotkey' = [rhotkey EXCEPT ![0] = load_hotkey]
    /\ rpc' = [rpc EXCEPT ![0] = "loaded"]
    /\ UNCHANGED <<current_hotkey_str, current_hotkey_id, registry, nextHandle,
                   config, rinitial, rhandle, ncalls, lastCall, overlapped, aborted,
                   keyErrorPassed, pre>>
    /\ UNCHANGED <<clipVars, arbVars, cycVars, pureVars>>

\* start_hotkeys 335: register_hotkey(hotkey), with what 334 has loaded.
StartHotkeys ==
    /\ rpc[0] = "loaded"
    /\ EnterRegister(0, rhotkey[0])
    /\ UNCHANGED <<current_hotkey_str, current_hotkey_id, registry, nextHandle,
                   config, rinitial, rhandle, aborted, keyErrorPassed>>
    /\ UNCHANGED <<clipVars, arbVars, cycVars, pureVars>>

\* No worker thread is alive in place u.
Free(u) == rpc[u] \in {"unborn", "done", "raised"}

\* The register_hotkey calls still to come from threads that are on their
\* way to one: the listener before line 335 and the workers at the prompt.
CallsAhead ==
    Cardinality({u \in Workers : rpc[u] = "prompt"})
        + (IF rpc[0] \in {"start", "loaded"} THEN 1 ELSE 0)

\* The tray item starts a worker thread (318-324, 346-348), which reads
\* current_hotkey_str as the argument of ask_hotkey_blocking (328).  The
\* item can be used again and again; MaxCalls bounds the calls of
\* register_hotkey in one behaviour.
SpawnWorker(t) ==
    /\ t \in Workers
    /\ Free(t)
    /\ \A u \in Workers : u < t => ~Free(u)
    /\ ncalls + CallsAhead < MaxCalls
    /\ rpc' = [rpc EXCEPT ![t] = "prompt"]
    /\ rinitial' = [rinitial EXCEPT ![t] = current_hotkey_str]
    /\ UNCHANGED <<current_hotkey_str, current_hotkey_id, registry, nextHandle,
                   config, rhotkey, rhandle, ncalls, lastCall, overlapped, aborted,
                   keyErrorPassed, pre>>
    /\ UNCHANGED <<clipVars, arbVars, cycVars, pureVars>>

\* ask_hotkey_blocking 310-316 with the user's answer, then 329-330.
ask_hotkey_blocking(initial, answer) ==
    LET default_value == IF initial = None \/ initial = "" THEN DEFAULT_HOTKEY ELSE initial
        hotkey == IF answer = None \/ answer = "" THEN default_value ELSE answer
    IN  Strip(hotkey)

Prompt(t) ==
    /\ t \in Workers
    /\ rpc[t] = "prompt"
    /\ \E answer \in Answers :
          LET hotkey == ask_hotkey_blocking(rinitial[t], answer)
          IN  IF hotkey # ""
              THEN EnterRegister(t, hotkey)
              ELSE /\ rpc' = [rpc EXCEPT ![t] = "done"]
                   /\ UNCHANGED <<rhotkey, ncalls, lastCall, overlapped, pre>>
    /\ rinitial' = [rinitial EXCEPT ![t] = None]
    /\ UNCHANGED <<current_hotkey_str, current_hotkey_id, registry, nextHandle,
                   config, rhandle, aborted, keyErrorPassed>>
    /\ UNCHANGED <<clipVars, arbVars, cycVars, pureVars>>

\* 283: if current_hotkey_id is not None.
RegCheck(t) ==
    /\ rpc[t] = "check"
    /\ rpc' = [rpc EXCEPT ![t] = IF current_hotkey_id # NoId THEN "remove" ELSE "set_str"]
    /\ UNCHANGED <<current_hotkey_str, current_hotkey_id, registry, nextHandle, config,
                   rhotkey, rinitial, rhandle, ncalls, lastCall, overlapped, aborted,
                   keyErrorPassed, pre>>
    /\ UNCHANGED <<clipVars, arbVars, cycVars, pureVars>>

\* Variant of the removal in which the KeyError of a handle that is not
\* registered leaves register_hotkey.
RegRemove_Raises(t) ==
    /\ rpc[t] = "remove"
    /\ registry' = {r \in registry : r.id # current_hotkey_id}
    /\ keyErrorPassed' = keyErrorPassed
    /\ rpc' = [rpc EXCEPT ![t] = IF Registered(current_hotkey_id)
                                 THEN "set_str" ELSE "raised"]
    /\ UNCHANGED <<current_hotkey_str, current_hotkey_id, nextHandle, config,
                   rhotkey, rinitial, rhandle, ncalls, lastCall, overlapped, aborted, pre>>
    /\ UNCHANGED <<clipVars, arbVars, cycVars, pureVars>>

\* Variant of the removal that leaves the old registration installed.
RegRemove_Keep(t) ==
    /\ rpc[t] = "remove"
    /\ rpc' = [rpc EXCEPT ![t] = "set_str"]
    /\ UNCHANGED <<current_hotkey_str, current_hotkey_id, registry, nextHandle, config,
                   rhotkey, rinitial, rhandle, ncalls, lastCall, overlapped, aborted,
                   keyErrorPassed, pre>>
    /\ UNCHANGED <<clipVars, arbVars, cycVars, pureVars>>

\* 284-287: keyboard.remove_hotkey(current_hotkey_id); the KeyError of a
\* handle that is not registered is passed over.
RegRemove(t) ==
    /\ rpc[t] = "remove"
    /\ registry' = {r \in registry : r.id # current_hotkey_id}
    /\ keyErrorPassed' = (keyErrorPassed \/ ~Registered(current_hotkey_id))
    /\ rpc' = [rpc EXCEPT ![t] = "set_str"]
    /\ UNCHANGED <<current_hotkey_str, current_hotkey_id, nextHandle, config,
                   rhotkey, rinitial, rhandle, ncalls, lastCall, overlapped, aborted, pre>>
    /\ UNCHANGED <<clipVars, arbVars, cycVars, pureVars>>

\* 289: current_hotkey_str = hotkey.
RegSetStr(t) ==
    /\ rpc[t] = "set_str"
    /\ current_hotkey_str' = rhotkey[t]
    /\ rpc' = [rpc EXCEPT ![t] = "add"]
    /\ UNCHANGED <<current_hotkey_id, registry, nextHandle, config,
                   rhotkey, rinitial, rhandle, ncalls, lastCall, overlapped, aborted,
                   keyErrorPassed, pre>>
    /\ UNCHANGED <<clipVars, arbVars, cycVars, pureVars>>

\* 290, right-hand side: keyboard.add_hotkey(hotkey, lambda: on_hotkey(hotkey))
\* installs a registration bound to the local hotkey and returns its handle,
\* or raises and register_hotkey is left.
RegAdd(t) ==
    /\ rpc[t] = "add"
    /\ IF Parseable(rhotkey[t])
       THEN /\ registry' = registry \cup {[id |-> nextHandle, spec |-> rhotkey[t]]}
            /\ rhandle' = [rhandle EXCEPT ![t] = nextHandle]
            /\ nextHandle' = nextHandle + 1
            /\ rpc' = [rpc EXCEPT ![t] = "set_id"]
            /\ UNCHANGED <<rhotkey, aborted, pre>>
       ELSE /\ rpc' = [rpc EXCEPT ![t] = "raised"]
            /\ rhotkey' = [rhotkey EXCEPT ![t] = None]
            /\ aborted' = TRUE
            /\ pre' = NoPre
            /\ UNCHANGED <<registry, rhandle, nextHandle>>
    /\ UNCHANGED <<current_hotkey_str, current_hotkey_id, config,
                   rinitial, ncalls, lastCall, overlapped, keyErrorPassed>>
    /\ UNCHANGED <<clipVars, arbVars, cycVars, pureVars>>

\* 290, the assignment: current_hotkey_id = <the handle returned>.
RegSetId(t) ==
    /\ rpc[t] = "set_id"
    /\ current_hotkey_id' = rhandle[t]
    /\ rpc' = [rpc EXCEPT ![t] = "save"]
    /\ UNCHANGED <<current_hotkey_str, registry, nextHandle, config,
                   rhotkey, rinitial, rhandle, ncalls, lastCall, overlapped, aborted,
                   keyErrorPassed, pre>>
    /\ UNCHANGED <<clipVars, arbVars, cycVars, pureVars>>

\* 291, save_hotkey 106-107: the file is opened for writing.
RegSaveOpen(t) ==
    /\ rpc[t] = "save"
    /\ config' = Truncated
    /\ rpc' = [rpc EXCEPT ![t] = "save_close"]
    /\ UNCHANGED <<current_hotkey_str, current_hotkey_id, registry, nextHandle,
                   rhotkey, rinitial, rhandle, ncalls, lastCall, overlapped, aborted,
                   keyErrorPassed, pre>>
    /\ UNCHANGED <<clipVars, arbVars, cycVars, pureVars>>

\* 291, save_hotkey 108-109: the text is written when the file is closed;
\* register_hotkey returns and its locals are gone.
RegSave(t) ==
    /\ rpc[t] = "save_close"
    /\ config' = WriteAtStart(config, rhotkey[t])
    /\ rpc' = [rpc EXCEPT ![t] = "done"]
    /\ rhotkey' = [rhotkey EXCEPT ![t] = None]
    /\ rhandle' = [rhandle EXCEPT ![t] = NoId]
    /\ pre' = NoPre
    /\ UNCHANGED <<current_hotkey_str, current_hotkey_id, registry, nextHandle,
                   rinitial, ncalls, lastCall, overlapped, aborted, keyErrorPassed>>
    /\ UNCHANGED <<clipVars, arbVars, cycVars, pureVars>>

RegNext ==
    \/ StartLoad
    \/ StartHotkeys
    \/ \E t \in Workers : SpawnWorker(t)
    \/ \E t \in Workers : Prompt(t)
    \/ \E t \in Threads : RegCheck(t)
    \/ \E t \in Threads : RegRemove(t)
    \/ \E t \in Threads : RegSetStr(t)
    \/ \E t \in Threads : RegAdd(t)
    \/ \E t \in Threads : RegSetId(t)
    \/ \E t \in Threads : RegSaveOpen(t)
    \/ \E t \in Threads : RegSave(t)

(***************************************************************************)
(* The text functions applied to an input (main.py 35-39, 176-218).        *)
(***************************************************************************)
\* g, G, Cyrillic pe (small, capital), Cyrillic io, digit 1, comma, blank
PureChars == {103, 71, 1087, 1055, 1105, 49, 44, 32}

\* Every character the tables and the alphabets know.
TableChars == (DOMAIN ru_to_en) \cup (DOMAIN en_to_ru) \cup RU_CHARS \cup EN_CHARS

\* Short texts over the sample, and every known character on its own.
PureTexts == SeqsUpTo(PureChars, MaxTextLen) \cup {<<c>> : c \in TableChars}

TableOf(name) == IF name = "ru_to_en" THEN ru_to_en ELSE en_to_ru

OtherTableOf(name) == IF name = "ru_to_en" THEN en_to_ru ELSE ru_to_en

\* detect_direction(text)  (176-200, called at 212)
PureDetect ==
    /\ ppc = "start"
    /\ detected' = detect_direction(arg)
    /\ ppc' = "detected"
    /\ UNCHANGED <<arg, tableName, result, once, twice>>
    /\ UNCHANGED <<clipVars, arbVars, cycVars, regVars>>

\* fix_layout(text)  (202-218)
PureFix ==
    /\ ppc = "detected"
    /\ result' = fix_layout(arg)
    /\ ppc' = "fixed"
    /\ UNCHANGED <<arg, tableName, detected, once, twice>>
    /\ UNCHANGED <<clipVars, arbVars, cycVars, regVars>>

\* text.translate(table), and the outcome translated by the other table
\* (214, 216).
PureTranslate ==
    /\ ppc = "fixed"
    /\ once' = Translate(arg, TableOf(tableName))
    /\ twice' = Translate(Translate(arg, TableOf(tableName)), OtherTableOf(tableName))
    /\ ppc' = "done"
    /\ UNCHANGED <<arg, tableName, detected, result>>
    /\ UNCHANGED <<clipVars, arbVars, cycVars, regVars>>

(***************************************************************************)
(* Initial states and specifications.                                      *)
(***************************************************************************)
ArbIdle ==
    /\ fn = "none" /\ text = << >> /\ retries = 0 /\ i = 0 /\ ph = "idle"
    /\ exc = 0 /\ data = << >> /\ retVal = << >> /\ how = "none"
    /\ opens = 0 /\ sleeps = 0 /\ closes = 0 /\ fails = << >>

CycIdle ==
    /\ pc = "idle" /\ op = "none"
    /\ old = << >> /\ selected = << >> /\ fixed = << >>
    /\ clip0 = << >> /\ cleared = FALSE /\ failed = FALSE
    /\ clipOpen = FALSE /\ appPending = << >>
    /\ pasted = FALSE /\ pasteClip = << >>

\* Module state before start_hotkeys has run (59-60).
RegIdle ==
    /\ current_hotkey_str = None
    /\ current_hotkey_id = NoId
    /\ registry = {}
    /\ nextHandle = 1
    /\ rpc = [t \in Threads |-> IF t = 0 THEN "start" ELSE "unborn"]
    /\ rhotkey = [t \in Threads |-> None]
    /\ rinitial = [t \in Threads |-> None]
    /\ rhandle = [t \in Threads |-> NoId]
    /\ ncalls = 0
    /\ lastCall = None
    /\ overlapped = FALSE
    /\ aborted = FALSE
    /\ keyErrorPassed = FALSE
    /\ pre = NoPre

\* The text functions are not being exercised.
PureIdle ==
    /\ arg = << >> /\ tableName = "none" /\ detected = "unset"
    /\ result = << >> /\ once = << >> /\ twice = << >> /\ ppc = "off"

\* One correction cycle: any clipboard content, any selection.
Init ==
    /\ clipboard \in ClipTexts
    /\ selection \in Selections
    /\ ArbIdle /\ CycIdle /\ RegIdle /\ PureIdle
    /\ config = [kind |-> "absent", hotkey |-> None, size |-> 0]

Next == CycleNext \/ ArbNext \/ AppNext

Spec == Init /\ [][Next]_vars

\* One clipboard call with any arguments.
InitArb ==
    /\ clipboard \in ClipTexts
    /\ selection = << >>
    /\ CycIdle /\ RegIdle /\ PureIdle
    /\ config = [kind |-> "absent", hotkey |-> None, size |-> 0]
    /\ fn \in {"get", "set"}
    /\ text \in (IF fn = "set" THEN ClipTexts ELSE {<< >>})
    /\ retries \in 0..MaxRetries
    /\ i = 0 /\ ph = "loop" /\ exc = 0 /\ data = << >> /\ retVal = << >>
    /\ how = "none" /\ opens = 0 /\ sleeps = 0 /\ closes = 0 /\ fails = << >>

SpecArb == InitArb /\ [][ArbNext]_vars

\* The binding threads.
InitReg ==
    /\ clipboard = << >>
    /\ selection = << >>
    /\ ArbIdle /\ CycIdle /\ RegIdle /\ PureIdle
    /\ config \in Configs

SpecReg == InitReg /\ [][RegNext]_vars

\* The text functions on one input.
InitPure ==
    /\ clipboard = << >>
    /\ selection = << >>
    /\ ArbIdle /\ CycIdle /\ RegIdle
    /\ config = [kind |-> "absent", hotkey |-> None, size |-> 0]
    /\ arg \in PureTexts
    /\ tableName \in {"ru_to_en", "en_to_ru"}
    /\ detected = "unset"
    /\ result = << >> /\ once = << >> /\ twice = << >>
    /\ ppc = "start"

PureNext == PureDetect \/ PureFix \/ PureTranslate

SpecPure == InitPure /\ [][PureNext]_vars

(***************************************************************************)
(* Properties.                                                             *)
(***************************************************************************)
ArbEnded == ph \in {"returned", "raised"}

OnlyConflicts == \A k \in 1..Len(fails) : fails[k] = ACCESS_DENIED

Quiescent == \A t \in Threads : ~InRegister(t)

\* Ctrl+V has been synthesized, handled by the application or not yet.
PasteSynthesized ==
    pasted \/ \E k \in 1..Len(appPending) : appPending[k] = "paste"

\* C1: every invocation of on_hotkey that has run the clear step ends with
\* the restore write set_clipboard_text(old) as its last clipboard
\* operation, also when a step in between raised.
C1_RestoreIsLastClipboardOp ==
    (pc \in {"done", "raised"} /\ cleared) => op = "restore"

\* C2: under any interleaving of register_hotkey calls of different
\* threads, at most one registration is active in the keyboard subsystem.
C2_AtMostOneRegistration ==
    Cardinality(registry) <= 1

\* C3: a set_clipboard_text call all of whose attempts failed with an owner
\* conflict (code 5) ends with a failure reported to its caller.
C3_WriteExhaustionIsReported ==
    (fn = "set" /\ ArbEnded /\ retries >= 1 /\ Len(fails) = retries /\ OnlyConflicts)
        => ph = "raised"

\* C4: a paste is synthesized only after the write of the transformed text
\* succeeded, and so only while the clipboard holds the transformed text.
C4_PasteOnlyWithTransformedText ==
    pc = "paste" => (how = "ok" /\ clipboard = fixed)

\* C5: a completed cycle in which nothing was selected, or in which
\* fix_layout returned the selection unchanged, ends with the clipboard text
\* it started with, whatever owner conflicts hit its clipboard attempts.
C5_NoOpCycleKeepsClipboard ==
    (pc = "done" /\ (selection = << >> \/ (selected # << >> /\ fixed = selected)))
        => clipboard = clip0

\* C6: when no clipboard attempt fails, the clipboard holds after a complete
\* cycle the text it held before it, both when nothing is selected and when
\* a selection was transformed and a paste synthesized, whenever the
\* application gets to the synthesized shortcuts.
C6_CleanCycleRestoresClipboard ==
    (pc = "done" /\ ~failed /\ (selection = << >> \/ PasteSynthesized))
        => clipboard = clip0

\* A clean cycle that transformed a selection into a different text, which
\* the application pasted, and ended with a clipboard that was not empty at
\* the start.
C6_Witness ==
    /\ pc = "done" /\ ~failed /\ appPending = << >>
    /\ pasted /\ pasteClip = fixed /\ fixed # selected
    /\ clip0 # << >> /\ clipboard = clip0

\* C7: whenever no register_hotkey call is in progress, after calls that all
\* completed (overlapping ones included), current_hotkey_id is the handle of
\* an active registration bound to current_hotkey_str, and the persisted
\* configuration holds current_hotkey_str.
C7_BindingConsistentWhenQuiescent ==
    (Quiescent /\ ncalls >= 1 /\ ~aborted) =>
        /\ \E r \in registry : r.id = current_hotkey_id /\ r.spec = current_hotkey_str
        /\ config = save_hotkey(current_hotkey_str)

\* C8: after register_hotkey calls that did not overlap and all completed,
\* exactly one registration is active, it is bound to the argument of the
\* last call and is the one current_hotkey_id names, and current_hotkey_str
\* and the persisted configuration equal that argument.
C8_SequentialRebind ==
    (Quiescent /\ ncalls >= 1 /\ ~aborted /\ ~overlapped) =>
        /\ registry = {[id |-> current_hotkey_id, spec |-> lastCall]}
        /\ current_hotkey_str = lastCall
        /\ config = save_hotkey(lastCall)

\* Two register_hotkey calls, one after the other, the second one with
\* "ctrl+shift+q": the first registration is gone and the second is active.
C8_Witness ==
    /\ Quiescent /\ ~aborted /\ ~overlapped
    /\ ncalls = 2
    /\ lastCall = "ctrl+shift+q"
    /\ registry = {[id |-> 2, spec |-> "ctrl+shift+q"]}

\* C9: a clipboard call that has ended after fewer than `retries` failed
\* attempts, all of them owner conflicts, has succeeded: it made exactly one
\* attempt more than it had conflicts, the read returned the clipboard text
\* and the write left the clipboard holding its argument.
C9_SucceedsAfterConflicts ==
    (ArbEnded /\ Len(fails) < retries /\ OnlyConflicts) =>
        /\ ph = "returned" /\ how = "ok"
        /\ opens = Len(fails) + 1
        /\ fn = "get" => retVal = clipboard
        /\ fn = "set" => clipboard = text

\* A write of a text that succeeded at its third attempt after two owner
\* conflicts.
C9_Witness ==
    /\ fn = "set" /\ ph = "returned" /\ how = "ok"
    /\ fails = <<ACCESS_DENIED, ACCESS_DENIED>>
    /\ opens = 3
    /\ text # << >> /\ clipboard = text

\* C10: a failed attempt whose error code is not 5 is the last attempt of
\* the call: nothing is opened and nothing is slept after it, and the call
\* ends by raising.
C10_OtherErrorPropagates ==
    \A k \in 1..Len(fails) :
        fails[k] # ACCESS_DENIED =>
            /\ k = Len(fails)
            /\ opens = k
            /\ sleeps = k - 1
            /\ ph \in {"close", "except", "raised"}
            /\ exc = fails[k]

\* A call that raised at its second attempt, after one owner conflict.
C10_Witness ==
    /\ ph = "raised"
    /\ Len(fails) = 2 /\ fails[1] = ACCESS_DENIED /\ fails[2] # ACCESS_DENIED
    /\ opens = 2 /\ sleeps = 1

\* C11: get_clipboard_text called with retries = n, all of whose n attempts
\* failed with an owner conflict, returns the empty string without raising
\* and has made exactly n attempts.
C11_ReadExhaustionReturnsEmpty ==
    /\ fn = "get" => opens <= retries
    /\ (fn = "get" /\ ArbEnded /\ Len(fails) >= retries /\ OnlyConflicts) =>
          /\ ph = "returned" /\ how = "exhausted"
          /\ retVal = << >>
          /\ Len(fails) = retries
          /\ opens = retries
          /\ sleeps = retries

\* A read with retries = 3 on a clipboard that holds a text, ended after
\* three owner conflicts.
C11_Witness ==
    /\ fn = "get" /\ ph = "returned"
    /\ retries = 3
    /\ fails = <<ACCESS_DENIED, ACCESS_DENIED, ACCESS_DENIED>>
    /\ clipboard # << >> /\ retVal = << >>

\* C12: the clipboard is held open only inside one attempt. While a call is
\* between attempts (sleeping, or about to open), has returned or has
\* raised, the clipboard is closed and every attempt that opened it has
\* closed it, also the attempts whose body failed.
C12_ClipboardClosedOutsideAttempt ==
    /\ clipOpen => ph \in {"body", "close"}
    /\ ph \in {"loop", "open", "except", "returned", "raised"} =>
          /\ ~clipOpen
          /\ closes <= opens
          /\ closes >= opens - Len(fails)
    /\ ph = "returned" /\ how = "ok" => closes >= 1

\* A call that raised after two attempts, both of which had opened the
\* clipboard and failed inside the body: both were closed.
C12_Witness ==
    /\ ph = "raised" /\ ~clipOpen
    /\ Len(fails) = 2 /\ opens = 2 /\ closes = 2

\* The number of positions of s holding a character of set, counted from the
\* front one character at a time.
RECURSIVE Occurrences(_, _)
Occurrences(s, set) ==
    IF s = << >> THEN 0
    ELSE (IF Head(s) \in set THEN 1 ELSE 0) + Occurrences(Tail(s), set)

IsLetter(c) == c \in RU_CHARS \cup EN_CHARS

\* C13: detect_direction(text) is "ru" exactly when text has more characters
\* of EN_CHARS than of RU_CHARS, "en" exactly when it has more of RU_CHARS,
\* and "none" exactly when the two counts are equal; the characters in neither
\* set have no part in it (the text without them gives the same answer).
C13_DirectionByMajority ==
    ppc # "start" =>
        LET e == Occurrences(arg, EN_CHARS)
            r == Occurrences(arg, RU_CHARS)
        IN  /\ detected \in {"ru", "en", "none"}
            /\ detected = "ru" <=> e > r
            /\ detected = "en" <=> r > e
            /\ detected = "none" <=> e = r
            /\ detected = detect_direction(SelectSeq(arg, IsLetter))

\* A Latin letter, a Cyrillic letter and a digit: a tie, and a character in
\* neither set.
C13_Witness ==
    /\ ppc = "detected"
    /\ arg = <<103, 1087, 49>>
    /\ detected = "none"

OnlyRuChars(s) == \A k \in 1..Len(s) : s[k] \in RU_CHARS

\* C14 as stated: for every text made only of characters of RU_CHARS,
\* detect_direction returns "en".  The empty text is such a text and gets
\* "none".
C14_AllRuGivesEn_AsStated ==
    (ppc # "start" /\ OnlyRuChars(arg)) => detected = "en"

\* C14: for every non-empty text made only of characters of RU_CHARS,
\* detect_direction returns "en".
C14_NonEmptyAllRuGivesEn ==
    (ppc # "start" /\ arg # << >> /\ OnlyRuChars(arg)) => detected = "en"

\* Two Cyrillic letters, one small and one capital.
C14_Witness ==
    /\ ppc = "detected"
    /\ arg = <<1087, 1055>>
    /\ detected = "en"

Over(s, set) == \A k \in 1..Len(s) : s[k] \in set

\* C15: a text whose characters are all in the domain of ru_to_en, translated
\* by ru_to_en and then by en_to_ru, is the text again, and the same for a
\* text over the domain of en_to_ru translated by en_to_ru and then by
\* ru_to_en; each table maps its domain into the domain of the other and the
\* other maps every value back.
C15_RoundTripIsIdentity ==
    /\ (ppc = "done" /\ Over(arg, DOMAIN TableOf(tableName))) =>
          /\ twice = arg
          /\ Over(once, DOMAIN OtherTableOf(tableName))
    /\ ppc = "done" =>
          /\ \A c \in DOMAIN ru_to_en :
                ru_to_en[c] \in DOMAIN en_to_ru /\ en_to_ru[ru_to_en[c]] = c
          /\ \A c \in DOMAIN en_to_ru :
                en_to_ru[c] \in DOMAIN ru_to_en /\ ru_to_en[en_to_ru[c]] = c

\* A capital Cyrillic pe and a comma go to G and a question mark and come
\* back.
C15_Witness ==
    /\ ppc = "done" /\ tableName = "ru_to_en"
    /\ arg = <<1055, 44>>
    /\ once = <<71, 63>>
    /\ twice = <<1055, 44>>

Values(t) == {t[c] : c \in DOMAIN t}

\* comma, full stop, double quote, semicolon, colon, question mark
SharedPunctuation == {44, 46, 34, 59, 58, 63}

\* C16 as stated: no character in the domain of a table is also a value of
\* that table.  Both tables take a comma and both give a question mark for
\* some other key, and so on for six punctuation marks.
C16_DomainDisjointFromValues_AsStated ==
    ppc = "done" =>
        (DOMAIN TableOf(tableName)) \cap Values(TableOf(tableName)) = {}

\* C16: in each table the characters that are both in its domain and among
\* its values are exactly the six punctuation marks , . " ; : ? and so no
\* letter, and no other character, of a table's domain is a value of it; a
\* translated character is in the table's domain again only if it is one of
\* the six.
C16_DomainMeetsValuesInPunctuation ==
    ppc = "done" =>
        /\ (DOMAIN TableOf(tableName)) \cap Values(TableOf(tableName))
              = SharedPunctuation
        /\ \A k \in 1..Len(arg) :
              (arg[k] \in DOMAIN TableOf(tableName)
                 /\ once[k] \in DOMAIN TableOf(tableName))
                 => once[k] \in SharedPunctuation

\* ru_to_en takes a comma to a question mark, and a question mark is a key of
\* ru_to_en too.
C16_Witness ==
    /\ ppc = "done" /\ tableName = "ru_to_en"
    /\ arg = <<44>>
    /\ once = <<63>>
    /\ 63 \in DOMAIN ru_to_en

\* The keys of the table fix_layout uses for a direction; none for "none".
SelectedDomain(d) ==
    IF d = "ru" THEN DOMAIN en_to_ru
    ELSE IF d = "en" THEN DOMAIN ru_to_en
    ELSE {}

\* C17: fix_layout(text) is as long as text; a position where it differs from
\* text holds, in text, a key of the table chosen by detect_direction(text),
\* so every other character stays where it is; and for the direction "none"
\* the result is text.
C17_FixLayoutKeepsShape ==
    ppc \in {"fixed", "done"} =>
        /\ Len(result) = Len(arg)
        /\ \A k \in 1..Len(arg) :
              /\ arg[k] \notin SelectedDomain(detected) => result[k] = arg[k]
              /\ arg[k] \in {32, 49} => result[k] = arg[k]
        /\ detected = "none" => result = arg

\* "g1" becomes Cyrillic pe followed by the same digit.
C17_Witness ==
    /\ ppc = "fixed"
    /\ arg = <<103, 49>>
    /\ detected = "ru"
    /\ result = <<1087, 49>>

\* C18: when remove_hotkey is called with a handle that is no longer
\* registered, the step changes nothing and the call goes on to line 289;
\* register_hotkey is left by an exception only from add_hotkey and only for
\* a combination it cannot parse; and every call that got past the removal,
\* by a KeyError or not, installs its registration, stores the handle and
\* saves the combination.
C18_StaleRemovalIsPassedOver ==
    [][\A t \in Threads :
         /\ (rpc[t] = "remove" /\ rpc'[t] # "remove"
               /\ ~Registered(current_hotkey_id)) =>
               /\ rpc'[t] = "set_str"
               /\ keyErrorPassed'
               /\ registry' = registry
               /\ current_hotkey_id' = current_hotkey_id
               /\ aborted' = aborted
         /\ (rpc[t] # "raised" /\ rpc'[t] = "raised") =>
               rpc[t] = "add" /\ ~Parseable(rhotkey[t])
         /\ (rpc[t] = "add" /\ rpc'[t] # "add" /\ Parseable(rhotkey[t])) =>
               /\ rpc'[t] = "set_id"
               /\ [id |-> rhandle'[t], spec |-> rhotkey[t]] \in registry'
               /\ ~Registered(rhandle'[t])
         /\ (rpc[t] = "set_id" /\ rpc'[t] # "set_id") =>
               rpc'[t] = "save" /\ current_hotkey_id' = rhandle[t]
         /\ (rpc[t] = "save" /\ rpc'[t] # "save") => rpc'[t] = "save_close"
         /\ (rpc[t] = "save_close" /\ rpc'[t] # "save_close") =>
               rpc'[t] = "done"
      ]_vars

\* A removal raised KeyError, and every call of register_hotkey, the one with
\* that removal among them, has returned without an exception; the handle
\* stored last is registered.
C18_Witness ==
    /\ keyErrorPassed /\ ~aborted
    /\ \A t \in Threads : rpc[t] \in {"unborn", "done"}
    /\ rpc[0] = "done" /\ ncalls = MaxCalls
    /\ Registered(current_hotkey_id)

\* C19: a paste is synthesized only in a cycle whose synthesized copy put the
\* selection on the clipboard: never when nothing is selected, and the text
\* read back and transformed is the selection.
C19_PasteOnlyOfCopiedSelection ==
    PasteSynthesized => (selection # << >> /\ selected = selection)

\* C20: when add_hotkey raises inside a register_hotkey call that runs alone,
\* the binding is as the call found it: the same registrations are installed,
\* and current_hotkey_str, current_hotkey_id and the configuration file have
\* the values they had when the call began.
C20_FailedAddLeavesBinding ==
    [][\A t \in Threads :
         (rpc[t] = "add" /\ rpc'[t] = "raised" /\ pre.known) =>
             /\ registry' = pre.registry
             /\ current_hotkey_str' = pre.str
             /\ current_hotkey_id' = pre.id
             /\ config' = pre.config
      ]_vars

====
